---- MODULE Spec2Model ----
(***************************************************************************)
(* Model of powermeter_via_ip.py: a poller for the Victron VM-3P75CT       *)
(* energy meter (Modbus/UDP).  The module models                           *)
(*   - the register word decoders (decode_int16, decode_int32),            *)
(*   - the register access with fallback (read_input_or_holding),          *)
(*   - the snapshot builder with the power-factor derivation (read_all),   *)
(*   - the poll loop of main() with its try/finally around the client.     *)
(*                                                                         *)
(* Python values are modelled as records, so that any two of them can be   *)
(* compared:                                                               *)
(*   None            [isNone |-> TRUE]                                     *)
(*   a raised error  [raised |-> "ValueError"]                             *)
(*   an int          [q |-> q, r |-> r], the integer q * 2^16 + r with     *)
(*                   0 <= r < 2^16 (exact for every 32-bit quantity)       *)
(*   a float         [n |-> n, d |-> d], the rational n / d in lowest      *)
(*                   terms with d > 0 (floating-point rounding is not      *)
(*                   modelled)                                             *)
(***************************************************************************)
EXTENDS Integers, Sequences, FiniteSets

VARIABLES
    pc,       \* position of the running program
    conn,     \* state of the ModbusUdpClient: "new", "open" or "closed"
    nOpen,    \* number of successful client.connect() calls
    nClose,   \* number of client.close() calls
    cycle,    \* number of the current poll cycle
    nDiag,    \* number of cycles so far that printed the read-error diagnostic
    dev,      \* what the meter answers, per register address and register space
    values,   \* the snapshot: read_all's `data`, main's `values`
    out,      \* the lines printed by the current poll cycle
    exc,      \* the exception propagating out of the program, or "none"
    acc,      \* one call of read_input_or_holding: its arguments and outcome
    dec       \* one call of decode_int16 / decode_int32: arguments and result

vars == <<pc, conn, nOpen, nClose, cycle, nDiag, dev, values, out, exc, acc, dec>>

-----------------------------------------------------------------------------
(* Python values *)

None == [isNone |-> TRUE]

IsNone(v) == "isNone" \in DOMAIN v

Raise(e) == [raised |-> e]

IsRaised(v) == "raised" \in DOMAIN v

WordSize == 65536

\* The Python int q * 2^16 + r.
Wide(q, r) == [q |-> q, r |-> r]

ToInt(w) == w.q * WordSize + w.r

Abs(x) == IF x < 0 THEN -x ELSE x

Max(a, b) == IF a >= b THEN a ELSE b

RECURSIVE Pow2(_)
Pow2(n) == IF n = 0 THEN 1 ELSE 2 * Pow2(n - 1)

\* a & b and a | b on non-negative integers, bit by bit.
RECURSIVE BitAnd(_, _)
BitAnd(a, b) ==
    IF a = 0 \/ b = 0 THEN 0
    ELSE (a % 2) * (b % 2) + 2 * BitAnd(a \div 2, b \div 2)

RECURSIVE BitOr(_, _)
BitOr(a, b) ==
    IF a = 0 THEN b
    ELSE IF b = 0 THEN a
    ELSE Max(a % 2, b % 2) + 2 * BitOr(a \div 2, b \div 2)

\* 1 << n, for 0 <= n <= 32.
ShiftOne(n) == IF n < 16 THEN Wide(0, Pow2(n)) ELSE Wide(Pow2(n - 16), 0)

\* w << 16 for a 16-bit word w.
ShiftLeft16(w) == Wide(w, 0)

\* a & b and a | b and a - b on ints with non-negative operands.
WideAnd(a, b) == Wide(BitAnd(a.q, b.q), BitAnd(a.r, b.r))

WideOr(a, b) == Wide(BitOr(a.q, b.q), BitOr(a.r, b.r))

WideSub(a, b) ==
    IF a.r >= b.r THEN Wide(a.q - b.q, a.r - b.r)
    ELSE Wide(a.q - b.q - 1, a.r - b.r + WordSize)

-----------------------------------------------------------------------------
(* Helper functions for numeric decoding *)

\* value -= 1 << (bits - 1)
twos_complement_half(value, bits) ==
    IF WideAnd(value, ShiftOne(bits - 1)) # Wide(0, 0)
    THEN WideSub(value, ShiftOne(bits - 1))
    ELSE value

twos_complement(value, bits) ==
    IF WideAnd(value, ShiftOne(bits - 1)) # Wide(0, 0)
    THEN WideSub(value, ShiftOne(bits))
    ELSE value

decode_int16(registers, signed) ==
    IF Len(registers) # 1 THEN Raise("ValueError")
    ELSE LET raw == Wide(0, BitAnd(registers[1], 65535))
         IN  IF signed THEN twos_complement(raw, 16) ELSE raw

decode_int32_swapped(registers, signed) ==
    IF Len(registers) # 2 THEN Raise("ValueError")
    ELSE LET hi  == BitAnd(registers[2], 65535)
             lo  == BitAnd(registers[1], 65535)
             raw == WideOr(ShiftLeft16(hi), Wide(0, lo))
         IN  IF signed THEN twos_complement(raw, 32) ELSE raw

decode_int32(registers, signed) ==
    IF Len(registers) # 2 THEN Raise("ValueError")
    ELSE LET hi  == BitAnd(registers[1], 65535)
             lo  == BitAnd(registers[2], 65535)
             raw == WideOr(ShiftLeft16(hi), Wide(0, lo))
         IN  IF signed THEN twos_complement(raw, 32) ELSE raw

-----------------------------------------------------------------------------
(* Floats, as rationals in lowest terms *)

RECURSIVE Gcd(_, _)
Gcd(a, b) == IF b = 0 THEN a ELSE Gcd(b, a % b)

Rat(n, d) ==
    LET g == Gcd(Abs(n), Abs(d))
        s == IF d < 0 THEN -1 ELSE 1
    IN  [n |-> s * (n \div g), d |-> s * (d \div g)]

RMul(a, b) == Rat(a.n * b.n, a.d * b.d)

RDiv(a, b) == Rat(a.n * b.d, a.d * b.n)

RAdd(a, b) == Rat(a.n * b.d + b.n * a.d, a.d * b.d)

RAbs(a) == [n |-> Abs(a.n), d |-> a.d]

RLess(a, b) == a.n * b.d < b.n * a.d

RLeq(a, b) == a.n * b.d <= b.n * a.d

\* raw * scale for a Python int raw and a float scale.
IntTimes(raw, scale) == Rat(ToInt(raw) * scale.n, scale.d)

Float_1_0 == Rat(1, 1)

Float_0_01 == Rat(1, 100)

Float_1e_6 == Rat(1, 1000000)

Float_0_0 == Rat(0, 1)

Float_neg_1_0 == Rat(-1, 1)

-----------------------------------------------------------------------------
(* Modbus register reading helpers *)

\* The responses of the transport: rr is None, rr.isError(), or a response
\* carrying rr.registers.
RspNone == [kind |-> "none"]

RspError == [kind |-> "error"]

RspOk(words) == [kind |-> "ok", registers |-> words]

\* A list of register words, as a value that can be compared with None.
List(words) == [items |-> words]

Succeeded(rr) == rr.kind # "none" /\ rr.kind # "error"

\* One request to the transport.
Req(space, address, count) == [space |-> space, address |-> address, count |-> count]

\* read_input_or_holding with the holding registers tried first.
read_input_or_holding_holding_first(client, address, count) ==
    LET rr1 == client[address].holding
        rr2 == client[address].input
    IN  IF Succeeded(rr1)
        THEN [regs |-> List(rr1.registers),
              reqs |-> <<Req("holding", address, count)>>]
        ELSE IF Succeeded(rr2)
        THEN [regs |-> List(rr2.registers),
              reqs |-> <<Req("holding", address, count),
                         Req("input", address, count)>>]
        ELSE [regs |-> None,
              reqs |-> <<Req("holding", address, count),
                         Req("input", address, count)>>]

\* The value returned (regs) and the requests issued to the transport (reqs).
read_input_or_holding(client, address, count) ==
    LET rr1 == client[address].input
        rr2 == client[address].holding
    IN  IF Succeeded(rr1)
        THEN [regs |-> List(rr1.registers),
              reqs |-> <<Req("input", address, count)>>]
        ELSE IF Succeeded(rr2)
        THEN [regs |-> List(rr2.registers),
              reqs |-> <<Req("input", address, count),
                         Req("holding", address, count)>>]
        ELSE [regs |-> None,
              reqs |-> <<Req("input", address, count),
                         Req("holding", address, count)>>]

read_int16_scaled(client, address, scale, signed) ==
    LET regs == read_input_or_holding(client, address, 1).regs
    IN  IF IsNone(regs) THEN None
        ELSE LET raw == decode_int16(regs.items, signed)
             IN  IF IsRaised(raw) THEN raw ELSE IntTimes(raw, scale)

read_int32_scaled(client, address, scale, signed) ==
    LET regs == read_input_or_holding(client, address, 2).regs
    IN  IF IsNone(regs) THEN None
        ELSE LET raw == decode_int32(regs.items, signed)
             IN  IF IsRaised(raw) THEN raw ELSE IntTimes(raw, scale)

-----------------------------------------------------------------------------
(* Core data acquisition: read_all() + power factor computation *)

Entry(name, address, count, signed, scale) ==
    [name |-> name, address |-> address, count |-> count,
     signed |-> signed, scale |-> scale]

\* The reads of read_all, in program order.  An entry with count 1 is a call
\* of read_int16_scaled, one with count 2 a call of read_int32_scaled.
Table == <<
    Entry("P_total_W",           12416, 2, TRUE,  Float_1_0),   \* 0x3080
    Entry("E_total_forward_kWh", 12340, 2, FALSE, Float_0_01),  \* 0x3034
    Entry("E_total_reverse_kWh", 12342, 2, FALSE, Float_0_01),  \* 0x3036
    Entry("U_PEN_V",             12339, 1, TRUE,  Float_0_01),  \* 0x3033
    Entry("freq_Hz",             12338, 1, FALSE, Float_0_01),  \* 0x3032
    Entry("U_L1_V",              12352, 1, TRUE,  Float_0_01),  \* 0x3040
    Entry("I_L1_A",              12353, 1, TRUE,  Float_0_01),  \* 0x3041
    Entry("P_L1_W",              12418, 2, TRUE,  Float_1_0),   \* 0x3082
    Entry("E_L1_forward_kWh",    12354, 2, FALSE, Float_0_01),  \* 0x3042
    Entry("E_L1_reverse_kWh",    12356, 2, FALSE, Float_0_01),  \* 0x3044
    Entry("U_L2_V",              12360, 1, TRUE,  Float_0_01),  \* 0x3048
    Entry("I_L2_A",              12361, 1, TRUE,  Float_0_01),  \* 0x3049
    Entry("P_L2_W",              12422, 2, TRUE,  Float_1_0),   \* 0x3086
    Entry("E_L2_forward_kWh",    12362, 2, FALSE, Float_0_01),  \* 0x304A
    Entry("E_L2_reverse_kWh",    12364, 2, FALSE, Float_0_01),  \* 0x304C
    Entry("U_L3_V",              12368, 1, TRUE,  Float_0_01),  \* 0x3050
    Entry("I_L3_A",              12369, 1, TRUE,  Float_0_01),  \* 0x3051
    Entry("P_L3_W",              12426, 2, TRUE,  Float_1_0),   \* 0x308A
    Entry("E_L3_forward_kWh",    12370, 2, FALSE, Float_0_01),  \* 0x3052
    Entry("E_L3_reverse_kWh",    12372, 2, FALSE, Float_0_01)   \* 0x3054
>>

TableIndex == 1..Len(Table)

Addresses == {Table[i].address : i \in TableIndex}

TableFields == {Table[i].name : i \in TableIndex}

Phases == {"L1", "L2", "L3"}

U_(phase) == "U_" \o phase \o "_V"

I_(phase) == "I_" \o phase \o "_A"

P_(phase) == "P_" \o phase \o "_W"

PF_(phase) == "PF_" \o phase

\* data = {}
EmptyDict == [k \in {} |-> None]

\* data[key] = value
SetItem(data, key, value) ==
    [k \in DOMAIN data \cup {key} |-> IF k = key THEN value ELSE data[k]]

\* One of the assignments  data[name] = read_intNN_scaled(client, ...).
ReadEntry(client, e) ==
    IF e.count = 1
    THEN read_int16_scaled(client, e.address, e.scale, e.signed)
    ELSE read_int32_scaled(client, e.address, e.scale, e.signed)

Clip(pf) ==
    LET hi == IF RLess(Float_1_0, pf) THEN Float_1_0 ELSE pf
    IN  IF RLess(hi, Float_neg_1_0) THEN Float_neg_1_0 ELSE hi

\* _pf_for_phase without the clip at -1.0.
pf_for_phase_upper_clip_only(P, U, I) ==
    IF IsNone(P) \/ IsNone(U) \/ IsNone(I) THEN None
    ELSE LET denom == RMul(U, I)
             pf == RDiv(P, denom)
         IN  IF RLess(RAbs(denom), Float_1e_6) THEN None
             ELSE IF RLess(Float_1_0, pf) THEN Float_1_0 ELSE pf

pf_for_phase(P, U, I) ==
    IF IsNone(P) \/ IsNone(U) \/ IsNone(I) THEN None
    ELSE LET denom == RMul(U, I)
         IN  IF RLess(RAbs(denom), Float_1e_6) THEN None
             ELSE Clip(RDiv(P, denom))

\* S_terms: the phases that contribute |U * I|.
S_phases(data) == {ph \in Phases : ~IsNone(data[U_(ph)]) /\ ~IsNone(data[I_(ph)])}

S_term(data, ph) == RAbs(RMul(data[U_(ph)], data[I_(ph)]))

RECURSIVE Sum(_, _)
Sum(data, S) ==
    IF S = {} THEN Float_0_0
    ELSE LET ph == CHOOSE x \in S : TRUE
         IN  RAdd(S_term(data, ph), Sum(data, S \ {ph}))

\* The total power factor, absent as soon as one phase lacks U or I.
pf_total_needs_all_phases(data) ==
    LET P_total == data["P_total_W"]
    IN  IF IsNone(P_total) \/ S_phases(data) # Phases THEN None
        ELSE LET S_total == Sum(data, S_phases(data))
             IN  IF RLeq(S_total, Float_1e_6) THEN None
                 ELSE Clip(RDiv(P_total, S_total))

pf_total(data) ==
    LET P_total == data["P_total_W"]
    IN  IF IsNone(P_total) THEN None
        ELSE LET S_total == Sum(data, S_phases(data))
             IN  IF RLeq(S_total, Float_1e_6) THEN None
                 ELSE Clip(RDiv(P_total, S_total))

\* The derived values of read_all: power factor per phase and total.
Derive(data) ==
    LET d1 == SetItem(data, "PF_L1",
                  pf_for_phase(data["P_L1_W"], data["U_L1_V"], data["I_L1_A"]))
        d2 == SetItem(d1, "PF_L2",
                  pf_for_phase(data["P_L2_W"], data["U_L2_V"], data["I_L2_A"]))
        d3 == SetItem(d2, "PF_L3",
                  pf_for_phase(data["P_L3_W"], data["U_L3_V"], data["I_L3_A"]))
    IN  SetItem(d3, "PF_total", pf_total(d3))

\* The table reads from entry i on; an exception raised by a read leaves
\* read_all at once.
\* The table reads, given up at the first failed access: the fields from
\* there on stay absent.
RECURSIVE ReadTable_stop_at_failure(_, _, _)
ReadTable_stop_at_failure(client, i, data) ==
    IF i > Len(Table) THEN data
    ELSE LET v == ReadEntry(client, Table[i])
         IN  IF IsRaised(v) THEN v
             ELSE IF IsNone(v)
             THEN [k \in TableFields |-> IF k \in DOMAIN data THEN data[k] ELSE None]
             ELSE ReadTable_stop_at_failure(client, i + 1,
                                            SetItem(data, Table[i].name, v))

RECURSIVE ReadTable(_, _, _)
ReadTable(client, i, data) ==
    IF i > Len(Table) THEN data
    ELSE LET v == ReadEntry(client, Table[i])
         IN  IF IsRaised(v) THEN v
             ELSE ReadTable(client, i + 1, SetItem(data, Table[i].name, v))

read_all(client) ==
    LET data == ReadTable(client, 1, EmptyDict)
    IN  IF IsRaised(data) THEN data ELSE Derive(data)

-----------------------------------------------------------------------------
(* The display step of main() *)

\* One print statement: the fields it formats with a float format (:.1f,
\* :.2f, :.3f), and the fields it tests for None and then prints as "NA".
PrintStmt(tag, fmt, opt) == [tag |-> tag, fmt |-> fmt, opt |-> opt]

PrintPlan == <<
    PrintStmt("header",  {}, {}),
    PrintStmt("P_total", {"P_total_W"}, {}),
    PrintStmt("E_total", {"E_total_forward_kWh", "E_total_reverse_kWh"}, {}),
    PrintStmt("freq",    {"freq_Hz"}, {}),
    PrintStmt("U_PEN",   {"U_PEN_V"}, {}),
    PrintStmt("L1",      {"U_L1_V", "I_L1_A", "P_L1_W"}, {"PF_L1"}),
    PrintStmt("E_L1",    {"E_L1_forward_kWh", "E_L1_reverse_kWh"}, {}),
    PrintStmt("L2",      {"U_L2_V", "I_L2_A", "P_L2_W"}, {"PF_L2"}),
    PrintStmt("E_L2",    {"E_L2_forward_kWh", "E_L2_reverse_kWh"}, {}),
    PrintStmt("L3",      {"U_L3_V", "I_L3_A", "P_L3_W"}, {"PF_L3"}),
    PrintStmt("E_L3",    {"E_L3_forward_kWh", "E_L3_reverse_kWh"}, {}),
    PrintStmt("PF_total", {}, {"PF_total"}),
    PrintStmt("blank",   {}, {})
>>

\* A printed line: which statement printed it and which fields it shows as "NA".
Line(tag, na) == [tag |-> tag, na |-> na]

ReadErrorLine == Line("read_error", {})

\* f"{None:.1f}" raises TypeError: the lines printed before it stay printed.
RECURSIVE PrintFrom(_, _, _)
PrintFrom(vals, i, printed) ==
    IF i > Len(PrintPlan) THEN [out |-> printed, exc |-> "none"]
    ELSE LET st == PrintPlan[i]
         IN  IF \E f \in st.fmt : IsNone(vals[f])
             THEN [out |-> printed, exc |-> "TypeError"]
             ELSE PrintFrom(vals, i + 1,
                      Append(printed,
                             Line(st.tag, {f \in st.opt : IsNone(vals[f])})))

\* The diagnostic printed only when every field is absent.
PrintSnapshot_diag_if_all_absent(vals) ==
    IF \A f \in DOMAIN vals : IsNone(vals[f])
    THEN [out |-> <<ReadErrorLine>>, exc |-> "none"]
    ELSE PrintFrom(vals, 1, <<>>)

\* The body of the loop between read_all and sleep.
PrintSnapshot(vals) ==
    IF IsNone(vals["P_total_W"])
    THEN [out |-> <<ReadErrorLine>>, exc |-> "none"]
    ELSE PrintFrom(vals, 1, <<>>)

-----------------------------------------------------------------------------
(* The meter: what the transport answers *)

MaxFail == 2

MaxCycles == 2

IndexOf(address) == CHOOSE i \in TableIndex : Table[i].address = address

\* A register image: the words at each table entry.
NominalWords == <<
    <<65535, 65036>>,  \* P_total  -500 W
    <<7, 41248>>,      \* 500000 -> 5000.00 kWh
    <<0, 12345>>,      \* 123.45 kWh
    <<150>>,           \* 1.50 V
    <<5000>>,          \* 50.00 Hz
    <<23000>>, <<450>>, <<65535, 64836>>, <<1, 0>>, <<0, 0>>,
    <<23000>>, <<200>>, <<0, 150>>,       <<0, 100>>, <<0, 7>>,
    <<23000>>, <<100>>, <<0, 50>>,        <<0, 65535>>, <<2, 1>>
>>

\* Other words, for the register space that is not meant to be read.
OtherWords(ws) == [k \in DOMAIN ws |-> (ws[k] + 1) % WordSize]

\* A reply with the wrong number of words.
Malformed(ws) == IF Len(ws) = 1 THEN ws \o ws ELSE <<ws[1]>>

Answer(inp, hold) == [input |-> inp, holding |-> hold]

\* The meter whose entries F fail in both register spaces, whose entry m
\* (0: none) sends a malformed reply, and which serves the other entries in
\* both spaces (via = "input") or in the holding space alone.
DevFrom(F, m, via) ==
    [a \in Addresses |->
        LET i == IndexOf(a)
            ws == NominalWords[i]
        IN  IF i \in F THEN Answer(RspError, RspNone)
            ELSE IF i = m THEN Answer(RspOk(Malformed(ws)), RspOk(ws))
            ELSE IF via = "input" THEN Answer(RspOk(ws), RspOk(OtherWords(ws)))
            ELSE Answer(RspNone, RspOk(ws))]

RECURSIVE SubsetsUpTo(_)
SubsetsUpTo(k) ==
    IF k = 0 THEN {{}}
    ELSE LET prev == SubsetsUpTo(k - 1)
         IN  prev \cup {S \cup {i} : S \in prev, i \in TableIndex}

FailSets == SubsetsUpTo(MaxFail)

Spaces == {"input", "holding"}

\* Meters with failing entries, and meters with one malformed reply.
FaultDevices ==
    {DevFrom(F, 0, via) : F \in FailSets, via \in Spaces}
        \cup {DevFrom({}, m, via) : m \in TableIndex, via \in Spaces}

\* Meters whose voltage, current and power registers take the values that
\* decide the power factors; an option is a reply or a failure.
UOpts == {RspError, RspOk(<<0>>), RspOk(<<200>>), RspOk(<<65336>>)}

IOpts == {RspError, RspOk(<<500>>)}

POpts == {RspError, RspOk(<<0, 12>>), RspOk(<<65535, 65533>>)}

PTotalOpts == {RspError, RspOk(<<0, 25>>), RspOk(<<65535, 65521>>)}

OptAnswer(opt) == IF Succeeded(opt) THEN Answer(opt, opt) ELSE Answer(opt, RspNone)

PFDev(pt, u, i, p) ==
    [a \in Addresses |->
        LET name == Table[IndexOf(a)].name
        IN  IF name = "P_total_W" THEN OptAnswer(pt)
            ELSE IF \E ph \in Phases : name = U_(ph)
                 THEN OptAnswer(u[CHOOSE ph \in Phases : name = U_(ph)])
            ELSE IF \E ph \in Phases : name = I_(ph)
                 THEN OptAnswer(i[CHOOSE ph \in Phases : name = I_(ph)])
            ELSE IF \E ph \in Phases : name = P_(ph)
                 THEN OptAnswer(p[CHOOSE ph \in Phases : name = P_(ph)])
            ELSE OptAnswer(RspOk(NominalWords[IndexOf(a)]))]

-----------------------------------------------------------------------------
(* main(): the poll loop *)

Idle ==
    /\ conn = "new" /\ nOpen = 0 /\ nClose = 0 /\ cycle = 1 /\ nDiag = 0
    /\ values = EmptyDict /\ out = <<>> /\ exc = "none"

Init ==
    /\ pc = "start"
    /\ Idle
    /\ dev = EmptyDict
    /\ acc = None
    /\ dec = None

\* client.connect(): on failure main prints two lines and returns.
Connect ==
    /\ pc = "start"
    /\ \E ok \in BOOLEAN :
          IF ok
          THEN /\ conn' = "open"
               /\ nOpen' = nOpen + 1
               /\ pc' = "read_all"
               /\ out' = out
          ELSE /\ pc' = "done"
               /\ out' = <<Line("could_not_connect", {}), Line("check_ip", {})>>
               /\ UNCHANGED <<conn, nOpen>>
    /\ UNCHANGED <<nClose, cycle, nDiag, dev, values, exc, acc, dec>>

\* values = read_all(client), against whatever the meter answers this cycle.
ReadAll ==
    /\ pc = "read_all"
    /\ \E d \in FaultDevices :
          LET r == read_all(d)
          IN  /\ dev' = d
              /\ IF IsRaised(r)
                 THEN /\ exc' = r.raised
                      /\ pc' = "finally"
                      /\ values' = values
                 ELSE /\ values' = r
                      /\ pc' = "display"
                      /\ exc' = exc
    /\ UNCHANGED <<conn, nOpen, nClose, cycle, nDiag, out, acc, dec>>

\* The if/else that prints the snapshot or the read-error diagnostic.
Display ==
    /\ pc = "display"
    /\ LET r == PrintSnapshot(values)
       IN  /\ out' = r.out
           /\ IF r.exc = "none"
              THEN /\ pc' = "sleep"
                   /\ exc' = exc
                   /\ nDiag' = IF r.out = <<ReadErrorLine>> THEN nDiag + 1 ELSE nDiag
              ELSE /\ pc' = "finally"
                   /\ exc' = r.exc
                   /\ nDiag' = nDiag
    /\ UNCHANGED <<conn, nOpen, nClose, cycle, dev, values, acc, dec>>

\* time.sleep(1.0), then the next iteration of while True.  The snapshot is
\* dead from here on: the next statement that uses `values` assigns it.
Sleep ==
    /\ pc = "sleep"
    /\ cycle < MaxCycles
    /\ pc' = "read_all"
    /\ cycle' = cycle + 1
    /\ values' = EmptyDict
    /\ dev' = EmptyDict
    /\ out' = <<>>
    /\ UNCHANGED <<conn, nOpen, nClose, nDiag, exc, acc, dec>>

\* KeyboardInterrupt leaving main without passing through finally.
Interrupt_uncaught ==
    /\ pc \in {"read_all", "display", "sleep"}
    /\ exc' = "KeyboardInterrupt"
    /\ pc' = "done"
    /\ UNCHANGED <<conn, nOpen, nClose, cycle, nDiag, dev, values, out, acc, dec>>

\* KeyboardInterrupt inside the try block: during a read, the display or
\* the sleep.
Interrupt ==
    /\ pc \in {"read_all", "display", "sleep"}
    /\ exc' = "KeyboardInterrupt"
    /\ pc' = "finally"
    /\ UNCHANGED <<conn, nOpen, nClose, cycle, nDiag, dev, values, out, acc, dec>>

\* finally: client.close(); the exception then leaves main.
Finally ==
    /\ pc = "finally"
    /\ conn' = "closed"
    /\ nClose' = nClose + 1
    /\ pc' = "done"
    /\ UNCHANGED <<nOpen, cycle, nDiag, dev, values, out, exc, acc, dec>>

Next == Connect \/ ReadAll \/ Display \/ Sleep \/ Interrupt \/ Finally

Spec == Init /\ [][Next]_vars

-----------------------------------------------------------------------------
(* read_all() on its own *)

InitSnapshot ==
    /\ pc = "snapshot"
    /\ Idle
    /\ acc = None
    /\ dec = None
    /\ \/ dev \in FaultDevices
       \/ \E pt \in PTotalOpts, u \in [Phases -> UOpts], i \in [Phases -> IOpts] :
             dev = PFDev(pt, u, i, [ph \in Phases |-> RspOk(<<0, 12>>)])
       \/ \E u \in [Phases -> UOpts], i \in [Phases -> IOpts], p \in [Phases -> POpts] :
             dev = PFDev(RspOk(<<0, 25>>), u, i, p)

CallReadAll ==
    /\ pc = "snapshot"
    /\ LET r == read_all(dev)
       IN  IF IsRaised(r)
           THEN /\ exc' = r.raised
                /\ pc' = "snapshot_raised"
                /\ values' = values
           ELSE /\ values' = r
                /\ pc' = "snapshot_done"
                /\ exc' = exc
    /\ UNCHANGED <<conn, nOpen, nClose, cycle, nDiag, dev, out, acc, dec>>

NextSnapshot == CallReadAll

SpecSnapshot == InitSnapshot /\ [][NextSnapshot]_vars

-----------------------------------------------------------------------------
(* read_input_or_holding() on its own *)

\* Replies of the two register spaces; those of the holding space differ
\* from those of the input space.
InputRsps(count) ==
    {RspNone, RspError, RspOk(IF count = 1 THEN <<4660>> ELSE <<4660, 22136>>),
     RspOk(IF count = 1 THEN <<1, 2>> ELSE <<3>>)}

HoldingRsps(count) ==
    {RspNone, RspError, RspOk(IF count = 1 THEN <<43981>> ELSE <<43981, 61185>>),
     RspOk(IF count = 1 THEN <<5, 6>> ELSE <<7>>)}

InitAccess ==
    /\ pc = "access"
    /\ Idle
    /\ dec = None
    /\ \E a \in Addresses, c \in {1, 2} :
          /\ acc = [address |-> a, count |-> c, regs |-> None, reqs |-> <<>>]
          /\ \E inp \in InputRsps(c), hold \in HoldingRsps(c) :
                dev = [x \in {a} |-> Answer(inp, hold)]

Access ==
    /\ pc = "access"
    /\ LET r == read_input_or_holding(dev, acc.address, acc.count)
       IN  acc' = [acc EXCEPT !.regs = r.regs, !.reqs = r.reqs]
    /\ pc' = "accessed"
    /\ UNCHANGED <<conn, nOpen, nClose, cycle, nDiag, dev, values, out, exc, dec>>

NextAccess == Access

SpecAccess == InitAccess /\ [][NextAccess]_vars

-----------------------------------------------------------------------------
(* decode_int16() and decode_int32() on their own *)

Words16 == 0..(WordSize - 1)

\* Words at the edges of the 16-bit range, and some in between.
SampleWords == {0, 1, 255, 256, 4660, 32767, 32768, 32769, 43981, 65534, 65535}

InitDecode ==
    /\ pc = "decode"
    /\ Idle
    /\ dev = EmptyDict
    /\ acc = None
    /\ \E signed \in BOOLEAN :
          \/ \E v \in Words16 :
                dec = [fn |-> 16, registers |-> <<v>>, signed |-> signed,
                       result |-> None]
          \/ \E hi \in SampleWords, lo \in SampleWords :
                dec = [fn |-> 32, registers |-> <<hi, lo>>, signed |-> signed,
                       result |-> None]
          \/ \E fn \in {16, 32}, v \in SampleWords :
                dec = [fn |-> fn,
                       registers |-> IF fn = 16 THEN <<v, v>> ELSE <<v>>,
                       signed |-> signed, result |-> None]

DecodeInt16 ==
    /\ pc = "decode"
    /\ dec.fn = 16
    /\ dec' = [dec EXCEPT !.result = decode_int16(dec.registers, dec.signed)]
    /\ pc' = "decoded"
    /\ UNCHANGED <<conn, nOpen, nClose, cycle, nDiag, dev, values, out, exc, acc>>

DecodeInt32 ==
    /\ pc = "decode"
    /\ dec.fn = 32
    /\ dec' = [dec EXCEPT !.result = decode_int32(dec.registers, dec.signed)]
    /\ pc' = "decoded"
    /\ UNCHANGED <<conn, nOpen, nClose, cycle, nDiag, dev, values, out, exc, acc>>

NextDecode == DecodeInt16 \/ DecodeInt32

SpecDecode == InitDecode /\ [][NextDecode]_vars

-----------------------------------------------------------------------------
(* Properties *)

Failed(rr) == rr.kind \in {"none", "error"}

\* C1: read_input_or_holding reads the input registers first; if that read
\* succeeds it returns its words and never reads the holding registers; if
\* it fails it reads the holding registers exactly once and returns their
\* words if that read succeeds; the result is None only if both reads fail;
\* no register space is read twice.
C1_InputThenHoldingOnce ==
    pc = "accessed" =>
        LET inp  == dev[acc.address].input
            hold == dev[acc.address].holding
            rqI  == Req("input", acc.address, acc.count)
            rqH  == Req("holding", acc.address, acc.count)
        IN  /\ ~Failed(inp) =>
                   /\ acc.reqs = <<rqI>>
                   /\ acc.regs = List(inp.registers)
            /\ Failed(inp) =>
                   /\ acc.reqs = <<rqI, rqH>>
                   /\ ~Failed(hold) => acc.regs = List(hold.registers)
                   /\ Failed(hold) => acc.regs = None
            /\ IsNone(acc.regs) <=> (Failed(inp) /\ Failed(hold))
            /\ \A sp \in Spaces :
                   Cardinality({k \in DOMAIN acc.reqs : acc.reqs[k].space = sp}) <= 1

\* The input read failed and the holding read's words were returned.
C1_Witness ==
    /\ pc = "accessed"
    /\ dev[acc.address].input = RspError
    /\ dev[acc.address].holding = RspOk(<<43981, 61185>>)
    /\ acc.regs = List(<<43981, 61185>>)
    /\ Len(acc.reqs) = 2

\* The words a table entry is served: those of the first register space
\* that answers.
Served(i) ==
    LET a == dev[Table[i].address]
    IN  IF ~Failed(a.input) THEN a.input.registers ELSE a.holding.registers

BothFail(i) ==
    Failed(dev[Table[i].address].input) /\ Failed(dev[Table[i].address].holding)

\* decode(words) * scale of a table entry, by plain arithmetic.
Expected(i) ==
    LET e  == Table[i]
        ws == Served(i)
        top == ws[1]
        neg == e.signed /\ top >= 32768
        raw == IF e.count = 1
               THEN (IF neg THEN top - 65536 ELSE top)
               ELSE (IF neg THEN top - 65536 ELSE top) * 65536 + ws[2]
    IN  Rat(raw * e.scale.n, e.scale.d)

\* C2: whichever table entries fail in both register spaces, read_all runs
\* to completion, the failing entries are None, and every other entry holds
\* decode(words) * scale of its own address, word count, signedness and
\* scale.
C2_PartialFailureKeepsOtherFields ==
    /\ pc = "snapshot_raised" =>
           \E i \in TableIndex : ~BothFail(i) /\ Len(Served(i)) # Table[i].count
    /\ pc = "snapshot_done" =>
           \A i \in TableIndex :
               IF BothFail(i)
               THEN values[Table[i].name] = None
               ELSE values[Table[i].name] = Expected(i)

\* Two entries fail, one of them the first; entries after them are present.
C2_Witness ==
    /\ pc = "snapshot_done"
    /\ BothFail(1) /\ BothFail(7)
    /\ values["P_total_W"] = None
    /\ values["I_L1_A"] = None
    /\ values["E_total_forward_kWh"] = Rat(5000, 1)
    /\ values["freq_Hz"] = Rat(50, 1)
    /\ values["E_L3_reverse_kWh"] = Rat(131073, 100)

\* C3 (as claimed): with P_total_W present, the display step never raises
\* and shows every absent field as "NA".
C3_AbsentFieldsShownNotAvailable ==
    /\ exc # "TypeError"
    /\ (pc = "sleep" /\ ~IsNone(values["P_total_W"])) =>
           \A f \in DOMAIN values :
               IsNone(values[f]) => \E k \in DOMAIN out : f \in out[k].na

\* C4 (as claimed): no transport failure, a reply with the wrong number of
\* words included, is raised out of read_all and ends the poll cycle.
C4_TransportFailureNeverRaised ==
    ~(pc = "finally" /\ exc = "ValueError")

\* C5: the client is opened at most once and closed at most once; when main
\* has ended after the connection was opened, client.close() has run; and
\* after the close the program is over, so nothing is read any more.
C5_ConnectionReleasedOnEveryExit ==
    /\ nOpen <= 1
    /\ nClose <= 1
    /\ pc \in {"read_all", "display", "sleep", "finally"} => (conn = "open" /\ nOpen = 1)
    /\ (pc = "done" /\ nOpen = 1) => (conn = "closed" /\ nClose = 1)
    /\ conn = "closed" => pc = "done"

\* main has ended on an interrupt in the second cycle, the client closed.
C5_Witness ==
    /\ pc = "done"
    /\ exc = "KeyboardInterrupt"
    /\ cycle = 2
    /\ nOpen = 1 /\ nClose = 1 /\ conn = "closed"

IsInterrupt == pc' = "finally" /\ exc' = "KeyboardInterrupt"

\* C6: a cycle whose snapshot lacks P_total_W prints the read-error
\* diagnostic and nothing else, whatever the other fields are; the loop then
\* sleeps and starts the next cycle with the client still open; a cycle whose
\* P_total_W is present prints the snapshot, starting with its header.
C6_StepAfterDisplay ==
    /\ (pc = "display" /\ IsNone(values["P_total_W"])) =>
           \/ IsInterrupt
           \/ pc' = "sleep" /\ out' = <<ReadErrorLine>> /\ exc' = "none"
    /\ (pc = "display" /\ ~IsNone(values["P_total_W"])) =>
           \/ IsInterrupt
           \/ Len(out') >= 1 /\ out'[1] = Line("header", {})
    /\ pc = "sleep" =>
           \/ IsInterrupt
           \/ pc' = "read_all" /\ cycle' = cycle + 1 /\ conn' = "open" /\ exc' = "none"

C6_SystemicFailureDiagnostic == [][C6_StepAfterDisplay]_vars

\* After a cycle that printed the diagnostic, a cycle printed all its lines.
C6_Witness ==
    /\ pc = "sleep"
    /\ cycle = 2
    /\ nDiag = 1
    /\ ~IsNone(values["P_total_W"])
    /\ Len(out) = Len(PrintPlan)

\* C7: decode_int32([hi, lo]) is hi * 2^16 + lo when unsigned; when signed
\* it is that value minus 2^32 if hi >= 0x8000 and that value otherwise, and
\* lies in -2^31 .. 2^31 - 1.
C7_Decode32 ==
    (pc = "decoded" /\ dec.fn = 32 /\ Len(dec.registers) = 2) =>
        LET hi == dec.registers[1]
            lo == dec.registers[2]
        IN  IF ~dec.signed
            THEN dec.result = Wide(hi, lo)
            ELSE /\ dec.result = IF hi >= 32768 THEN Wide(hi - 65536, lo) ELSE Wide(hi, lo)
                 /\ ToInt(dec.result) >= -2147483647 - 1
                 /\ ToInt(dec.result) <= 2147483647

\* 0x8000 0x0000 decodes to -2^31 when signed.
C7_Witness ==
    /\ pc = "decoded"
    /\ dec.fn = 32
    /\ dec.signed
    /\ dec.registers = <<32768, 0>>
    /\ dec.result = Wide(-32768, 0)

\* C8: decode_int16([v]) is v when unsigned; when signed it is v - 65536 if
\* and only if v >= 32768, and v otherwise.
C8_Decode16 ==
    (pc = "decoded" /\ dec.fn = 16 /\ Len(dec.registers) = 1) =>
        LET v == dec.registers[1]
        IN  /\ ~IsRaised(dec.result)
            /\ dec.result.r \in 0..65535
            /\ ~dec.signed => ToInt(dec.result) = v
            /\ dec.signed =>
                   /\ (ToInt(dec.result) = v - 65536) <=> (v >= 32768)
                   /\ v < 32768 => ToInt(dec.result) = v

\* 0x8000 decodes to -32768 when signed.
C8_Witness ==
    /\ pc = "decoded"
    /\ dec.fn = 16
    /\ dec.signed
    /\ dec.registers = <<32768>>
    /\ ToInt(dec.result) = -32768

\* P / (U * I) as numerator and denominator, not reduced.
RatioNum(P, U, I) == P.n * U.d * I.d

RatioDen(P, U, I) == P.d * U.n * I.n

Sign(x) == IF x < 0 THEN -1 ELSE 1

\* pf is num / den clamped to [-1, 1].
IsClamped(pf, num, den) ==
    LET n == num * Sign(den)
        d == Abs(den)
    IN  IF n > d THEN pf = [n |-> 1, d |-> 1]
        ELSE IF n < -d THEN pf = [n |-> -1, d |-> 1]
        ELSE pf.n * d = n * pf.d

\* C9: PF_X is present exactly when P_X_W, U_X_V and I_X_A are present and
\* |U * I| >= 1e-6; when present it is P / (U * I) clamped to [-1, 1].
C9_PhasePowerFactor ==
    pc = "snapshot_done" =>
        \A ph \in Phases :
            LET P == values[P_(ph)]
                U == values[U_(ph)]
                I == values[I_(ph)]
                pf == values[PF_(ph)]
                defined == /\ ~IsNone(P) /\ ~IsNone(U) /\ ~IsNone(I)
                           /\ Abs(U.n * I.n) * 1000000 >= U.d * I.d
            IN  /\ ~IsNone(pf) <=> defined
                /\ defined => IsClamped(pf, RatioNum(P, U, I), RatioDen(P, U, I))

\* A ratio of 1.2 gives 1.0, one of -1.2 gives -1.0, and U = 0 gives None.
C9_Witness ==
    /\ pc = "snapshot_done"
    /\ values["P_L1_W"] = Rat(12, 1) /\ values["U_L1_V"] = Rat(2, 1)
    /\ values["I_L1_A"] = Rat(5, 1) /\ values["PF_L1"] = Rat(1, 1)
    /\ values["P_L2_W"] = Rat(12, 1) /\ values["U_L2_V"] = Rat(-2, 1)
    /\ values["I_L2_A"] = Rat(5, 1) /\ values["PF_L2"] = Rat(-1, 1)
    /\ values["P_L3_W"] = Rat(-3, 1) /\ values["U_L3_V"] = Rat(0, 1)
    /\ values["I_L3_A"] = Rat(5, 1) /\ values["PF_L3"] = None

\* |U * I| of a phase that has both, 0 of a phase that lacks one.
Contribution(ph) ==
    IF ~IsNone(values[U_(ph)]) /\ ~IsNone(values[I_(ph)])
    THEN RAbs(RMul(values[U_(ph)], values[I_(ph)]))
    ELSE Rat(0, 1)

STotal == RAdd(RAdd(Contribution("L1"), Contribution("L2")), Contribution("L3"))

\* C10: PF_total is None if and only if P_total_W is None or S_total <= 1e-6,
\* S_total being the sum of |U * I| over the phases that have both U and I;
\* otherwise it is P_total / S_total clamped to [-1, 1], whether or not any
\* per-phase power or power factor is present.
C10_TotalPowerFactor ==
    pc = "snapshot_done" =>
        LET P == values["P_total_W"]
            pf == values["PF_total"]
            absent == IsNone(P) \/ STotal.n * 1000000 <= STotal.d
        IN  /\ IsNone(pf) <=> absent
            /\ ~absent => IsClamped(pf, P.n * STotal.d, P.d * STotal.n)

\* L3 has no voltage and L1 no power, and the total power factor is there.
C10_Witness ==
    /\ pc = "snapshot_done"
    /\ IsNone(values["U_L3_V"])
    /\ IsNone(values["P_L1_W"]) /\ IsNone(values["PF_L1"])
    /\ ~IsNone(values["U_L1_V"]) /\ ~IsNone(values["I_L1_A"])
    /\ ~IsNone(values["U_L2_V"]) /\ ~IsNone(values["I_L2_A"])
    /\ values["PF_total"] = Rat(1, 1)

====
